---- MODULE Spec2Model ----
(***************************************************************************)
(* Model of conjugation_scraper.py (FrenchConjugationScraper).             *)
(*                                                                         *)
(* Texts are sequences of one-character atoms.  Characters outside ASCII   *)
(* are written by code point: "U00E9" is e-acute, "U00C9" is E-acute,      *)
(* "U00E8" is e-grave, "U00EE" is i-circumflex, "U2019" is the right       *)
(* single quotation mark (typographic apostrophe), "U2014" is the em dash, *)
(* "U00A0" is the no-break space.                                          *)
(*                                                                         *)
(* A document (soup) is the sequence of its tables in document order.  A   *)
(* table is a record [prev, rows]: prev lists the elements that precede    *)
(* the table, nearest first, each [tag, text]; rows lists the tr elements, *)
(* each the sequence of the texts of its td/th cells.                      *)
(***************************************************************************)
EXTENDS Integers, Sequences, FiniteSets, TLC

VARIABLES
    verbs,              \* scrape_verbs_from_file: the verbs read from the input file
    idx,                \* position of the for loop over verbs (1-based)
    all_conjugations,   \* scrape_verbs_from_file: all_conjugations
    seen_ids,           \* scrape_verbs_from_file: seen_ids
    pc,                 \* "loop", "done" (write_csv returned) or "raised" (exception left the driver)
    csv_rows,           \* rows written by write_csv (empty until pc = "done")
    handed,             \* the record sequence passed to write_csv (empty until pc = "done")
    trace,              \* history: one entry per executed scrape_verb call
    arg,                \* input of the extractor under study
    ret                 \* its result; ret.called is FALSE before the call

vars == <<verbs, idx, all_conjugations, seen_ids, pc, csv_rows, handed, trace, arg, ret>>

driver_vars == <<verbs, idx, all_conjugations, seen_ids, pc, csv_rows, handed, trace>>

-----------------------------------------------------------------------------
(* Bounds *)

MaxVerbs == 3
MaxFill == 11
MaxRows == 7
MaxCellLen == 4
MaxSoup == 3
MaxPronRows == 10

-----------------------------------------------------------------------------
(* Python values *)

None == <<"None">>
NotCalled == [called |-> FALSE]

\* fetch_page(url): None on a RequestException, else the page
FetchFailed == [ok |-> FALSE, soup |-> <<>>]
Fetched(soup) == [ok |-> TRUE, soup |-> soup]

Min(a, b) == IF a < b THEN a ELSE b

Whitespace == {" ", "TAB", "LF", "U00A0"}

UpperToLower ==
    "A" :> "a" @@ "B" :> "b" @@ "C" :> "c" @@ "D" :> "d" @@ "E" :> "e" @@ "F" :> "f" @@
    "G" :> "g" @@ "H" :> "h" @@ "I" :> "i" @@ "J" :> "j" @@ "K" :> "k" @@ "L" :> "l" @@
    "M" :> "m" @@ "N" :> "n" @@ "O" :> "o" @@ "P" :> "p" @@ "Q" :> "q" @@ "R" :> "r" @@
    "S" :> "s" @@ "T" :> "t" @@ "U" :> "u" @@ "V" :> "v" @@ "W" :> "w" @@ "X" :> "x" @@
    "Y" :> "y" @@ "Z" :> "z" @@ "U00C9" :> "U00E9"

\* str.lower()
lower(s) == [i \in 1..Len(s) |-> IF s[i] \in DOMAIN UpperToLower THEN UpperToLower[s[i]] ELSE s[i]]

RECURSIVE lstrip(_, _)
\* str.lstrip(chars)
lstrip(s, chars) ==
    IF s # <<>> /\ Head(s) \in chars THEN lstrip(Tail(s), chars) ELSE s

RECURSIVE rstrip(_, _)
\* str.rstrip(chars)
rstrip(s, chars) ==
    IF s # <<>> /\ s[Len(s)] \in chars THEN rstrip(SubSeq(s, 1, Len(s) - 1), chars) ELSE s

\* str.strip()
strip(s) == rstrip(lstrip(s, Whitespace), Whitespace)

\* str.startswith(prefix)
startswith(s, prefix) ==
    Len(prefix) <= Len(s) /\ SubSeq(s, 1, Len(prefix)) = prefix

\* Python's "sub in s" on strings
contains(sub, s) ==
    \E i \in 1..(Len(s) - Len(sub) + 1) : SubSeq(s, i, i + Len(sub) - 1) = sub

RECURSIVE replace(_, _, _)
\* str.replace(old, new) for a non-empty old: leftmost non-overlapping occurrences
replace(s, old, new) ==
    IF Len(s) < Len(old) THEN s
    ELSE IF SubSeq(s, 1, Len(old)) = old
         THEN new \o replace(SubSeq(s, Len(old) + 1, Len(s)), old, new)
         ELSE <<Head(s)>> \o replace(Tail(s), old, new)

RECURSIVE split_acc(_, _, _)
split_acc(s, cur, acc) ==
    IF s = <<>> THEN (IF cur = <<>> THEN acc ELSE Append(acc, cur))
    ELSE IF Head(s) \in Whitespace
         THEN split_acc(Tail(s), <<>>, IF cur = <<>> THEN acc ELSE Append(acc, cur))
         ELSE split_acc(Tail(s), Append(cur, Head(s)), acc)

\* str.split() with no argument: the whitespace-delimited tokens
split(s) == split_acc(s, <<>>, <<>>)

RECURSIVE join(_, _)
\* sep.join(parts)
join(sep, parts) ==
    IF parts = <<>> THEN <<>>
    ELSE IF Len(parts) = 1 THEN parts[1]
    ELSE parts[1] \o sep \o join(sep, Tail(parts))

RECURSIVE concat(_)
\* the concatenation of a sequence of texts
concat(parts) == IF parts = <<>> THEN <<>> ELSE Head(parts) \o concat(Tail(parts))

-----------------------------------------------------------------------------
(* String literals of the source *)

kw_indicatif == <<"i", "n", "d", "i", "c", "a", "t", "i", "f">>
kw_subjonctif == <<"s", "u", "b", "j", "o", "n", "c", "t", "i", "f">>
kw_conditionnel == <<"c", "o", "n", "d", "i", "t", "i", "o", "n", "n", "e", "l">>

T_Present == <<"P", "r", "U00E9", "s", "e", "n", "t">>
T_Imparfait == <<"I", "m", "p", "a", "r", "f", "a", "i", "t">>
T_PasseSimple == <<"P", "a", "s", "s", "U00E9", " ", "s", "i", "m", "p", "l", "e">>
T_PasseCompose == <<"P", "a", "s", "s", "U00E9", " ", "c", "o", "m", "p", "o", "s", "U00E9">>
T_FuturSimple == <<"F", "u", "t", "u", "r", " ", "s", "i", "m", "p", "l", "e">>

premiere == <<"p", "r", "e", "m", "i", "U00E8", "r", "e">>
deuxieme == <<"d", "e", "u", "x", "i", "U00E8", "m", "e">>
troisieme == <<"t", "r", "o", "i", "s", "i", "U00E8", "m", "e">>
singulier == <<"s", "i", "n", "g", "u", "l", "i", "e", "r">>
pluriel == <<"p", "l", "u", "r", "i", "e", "l">>

\* self.persons
persons ==
    << <<premiere, singulier>>, <<deuxieme, singulier>>, <<troisieme, singulier>>,
       <<premiere, pluriel>>, <<deuxieme, pluriel>>, <<troisieme, pluriel>> >>

\* required_tenses.get(mood, [])
required_tenses(mood) ==
    IF mood = kw_indicatif
        THEN {T_Present, T_Imparfait, T_PasseSimple, T_PasseCompose, T_FuturSimple}
    ELSE IF mood = kw_subjonctif THEN {T_Present, T_Imparfait}
    ELSE IF mood = kw_conditionnel THEN {T_Present}
    ELSE {}

\* the list tested by "Skip if this looks like a header"
header_like == {lower(T_Present), lower(T_Imparfait), lower(T_PasseSimple), lower(T_FuturSimple)}

\* the forms rejected before clean-up: em dash, hyphen, empty
placeholder_forms == {<<"U2014">>, <<"-">>, <<>>}

\* the characters of rstrip('.,!?;:')
trailing_punctuation == {".", ",", "!", "?", ";", ":"}

\* range(10) of the backward search
MoodSteps == 10

-----------------------------------------------------------------------------
(* Mood resolution *)

\* the first n elements that repeated find_previous(tags) calls return
find_previous_all(prev, tags, n) ==
    LET matching == SelectSeq(prev, LAMBDA e : e.tag \in tags)
    IN  SubSeq(matching, 1, Min(n, Len(matching)))

\* mood_of_text with the conditionnel branch tested before the subjonctif branch
mood_of_text_reordered(text) ==
    IF contains(kw_indicatif, text) THEN kw_indicatif
    ELSE IF contains(kw_conditionnel, text) THEN kw_conditionnel
    ELSE IF contains(kw_subjonctif, text) THEN kw_subjonctif
    ELSE None

\* the if/elif chain over one lower-cased text
mood_of_text(text) ==
    IF contains(kw_indicatif, text) THEN kw_indicatif
    ELSE IF contains(kw_subjonctif, text) THEN kw_subjonctif
    ELSE IF contains(kw_conditionnel, text) THEN kw_conditionnel
    ELSE None

RECURSIVE first_mood(_)
\* the scan with break at the first text that names a mood
first_mood(texts) ==
    IF texts = <<>> THEN None
    ELSE IF mood_of_text(Head(texts)) # None THEN mood_of_text(Head(texts))
    ELSE first_mood(Tail(texts))

\* parse_conjugation_table: mood of a table
table_mood(table) ==
    LET found == find_previous_all(table.prev, {"h2", "h3", "h4", "p", "div"}, MoodSteps)
        prev_elements == [i \in 1..Len(found) |-> lower(strip(found[i].text))]
    IN  first_mood(prev_elements)

\* _extract_pronominal_conjugations_from_table: mood of a table
pronominal_mood(table) ==
    LET found == find_previous_all(table.prev, {"h2", "h3", "h4"}, MoodSteps)
        prev_texts == [i \in 1..Len(found) |-> lower(strip(found[i].text))]
    IN  first_mood(prev_texts)

-----------------------------------------------------------------------------
(* Standard table extractor: parse_conjugation_table *)

sp == <<" ">>
dash_sep == <<" ", "-", " ">>
apostrophe == <<"'">>
unicode_apostrophe == <<"U2019">>

Raised == [raised |-> TRUE, conjugations |-> <<>>]
Returned(conjugations) == [raised |-> FALSE, conjugations |-> conjugations]

\* the pronunciation of a row: cells[2] + cells[3] untrimmed, or cells[2] trimmed
row_pronunciation(cells) ==
    IF Len(cells) >= 4 THEN cells[3] \o cells[4]
    ELSE IF Len(cells) >= 3 THEN strip(cells[3])
    ELSE <<>>

\* "if auxiliary and participle: ... else: raise ValueError"
combine_auxiliary(auxiliary, participle) ==
    IF auxiliary # <<>> /\ participle # <<>>
    THEN [raised |-> FALSE, form |-> auxiliary \o sp \o participle]
    ELSE [raised |-> TRUE, form |-> <<>>]

\* "pronoun_aux.split()[-1]"
last_word(pronoun_aux) == split(pronoun_aux)[Len(split(pronoun_aux))]

\* "Extract just the auxiliary verb from pronoun + auxiliary"; an empty aux_part
\* raises at once, as an empty auxiliary does in combine_auxiliary
extract_auxiliary(pronoun_aux, participle) ==
    IF startswith(pronoun_aux, <<"j", "'">>) \/ startswith(pronoun_aux, <<"J", "'">>)
    THEN combine_auxiliary(
             strip(replace(replace(pronoun_aux, <<"j", "'">>, <<>>), <<"J", "'">>, <<>>)),
             participle)
    ELSE IF contains(sp, pronoun_aux)
    THEN combine_auxiliary(last_word(pronoun_aux), participle)
    ELSE combine_auxiliary(<<>>, participle)

\* passe_compose_form without the replace of the typographic apostrophe
passe_compose_form_ascii(cells) ==
    extract_auxiliary(strip(cells[1]), strip(cells[2]))

\* the Passe compose branch: auxiliary of the first cell + participle of the second
passe_compose_form(cells) ==
    extract_auxiliary(replace(strip(cells[1]), unicode_apostrophe, apostrophe), strip(cells[2]))

\* person_number_of reading the next entry of self.persons
person_number_shifted(row_idx) ==
    persons[((row_idx + 1) % Len(persons)) + 1][1] \o <<"_">>
        \o persons[((row_idx + 1) % Len(persons)) + 1][2]

\* self.persons[row_idx] joined as person_number
person_number_of(row_idx) ==
    persons[row_idx + 1][1] \o <<"_">> \o persons[row_idx + 1][2]

\* tense_text.lower().replace(' ', '_')
tense_name_of(tense_text) == replace(lower(tense_text), sp, <<"_">>)

\* the id f-string
conjugation_id_of(verb, mood, tense_name, person_number) ==
    verb \o dash_sep \o mood \o dash_sep \o tense_name \o dash_sep \o person_number

\* the "Clean up the extracted data" test made before rstrip
keep_form(conjugated_form) ==
    conjugated_form # <<>> /\ conjugated_form \notin placeholder_forms

\* the "Skip if this looks like a header" test made after rstrip
looks_like_header(conjugated_form) == lower(conjugated_form) \in header_like

\* conjugations.append({...}) for a form that passed the clean-up
append_row(tense_text, mood, verb, row_idx, cells, cleaned) ==
    IF looks_like_header(cleaned) THEN [kind |-> "skip"]
    ELSE [kind |-> "record",
          rec |-> [id |-> conjugation_id_of(verb, mood, tense_name_of(tense_text),
                                            person_number_of(row_idx)),
                   infinitive |-> verb,
                   conjugated_form |-> cleaned,
                   transcription |-> row_pronunciation(cells),
                   mood |-> mood,
                   tense |-> lower(tense_text),
                   person |-> person_number_of(row_idx)]]

\* "Clean up the extracted data": the test, then rstrip('.,!?;:')
clean_up(tense_text, mood, verb, row_idx, cells, conjugated_form) ==
    IF ~keep_form(conjugated_form) THEN [kind |-> "skip"]
    ELSE append_row(tense_text, mood, verb, row_idx, cells,
                    rstrip(conjugated_form, trailing_punctuation))

\* a Passe compose row once the auxiliary extraction has returned or raised
passe_compose_row(tense_text, mood, verb, row_idx, cells, pcf) ==
    IF pcf.raised THEN [kind |-> "raise"]
    ELSE clean_up(tense_text, mood, verb, row_idx, cells, pcf.form)

\* the body of the loop over the data rows of one accepted table
row_result(tense_text, mood, verb, row_idx, cells) ==
    IF Len(cells) < 2 THEN [kind |-> "skip"]
    ELSE IF lower(tense_text) = lower(T_PasseCompose)
    THEN passe_compose_row(tense_text, mood, verb, row_idx, cells, passe_compose_form(cells))
    ELSE clean_up(tense_text, mood, verb, row_idx, cells, strip(cells[2]))

\* "if row_idx >= len(self.persons): break"
past_last_person(row_idx) == row_idx >= Len(persons)

RECURSIVE table_rows(_, _, _, _, _, _)
\* what one row adds: the exception leaves the function, a record is appended
after_row(tense_text, mood, verb, rows, row_idx, acc, r) ==
    IF r.kind = "raise" THEN Raised
    ELSE table_rows(tense_text, mood, verb, rows, row_idx + 1,
                    IF r.kind = "record" THEN Append(acc, r.rec) ELSE acc)

\* for row_idx, row in enumerate(rows)
table_rows(tense_text, mood, verb, rows, row_idx, acc) ==
    IF row_idx >= Len(rows) \/ past_last_person(row_idx) THEN Returned(acc)
    ELSE after_row(tense_text, mood, verb, rows, row_idx, acc,
                   row_result(tense_text, mood, verb, row_idx, rows[row_idx + 1]))

\* "if mood and tense_text in required_tenses.get(mood, [])"
accept_table(table, verb, tense_text, mood) ==
    IF mood # None /\ tense_text \in required_tenses(mood)
    THEN table_rows(tense_text, mood, verb, Tail(table.rows), 0, <<>>)
    ELSE Returned(<<>>)

\* the body of "for table in tables"
parse_table(table, verb) ==
    IF table.rows = <<>> THEN Returned(<<>>)
    ELSE IF table.rows[1] = <<>> THEN Returned(<<>>)
    ELSE accept_table(table, verb, strip(table.rows[1][1]), table_mood(table))

RECURSIVE parse_tables(_, _, _)
\* what one table adds to the conjugations of the document
after_table(tables, verb, acc, r) ==
    IF r.raised THEN Raised
    ELSE parse_tables(Tail(tables), verb, acc \o r.conjugations)

\* for table in tables
parse_tables(tables, verb, acc) ==
    IF tables = <<>> THEN Returned(acc)
    ELSE after_table(tables, verb, acc, parse_table(Head(tables), verb))

\* parse_conjugation_table(soup, verb)
parse_conjugation_table(soup, verb) == parse_tables(soup, verb, <<>>)

-----------------------------------------------------------------------------
(* Pronominal row extractor: _extract_pronominal_conjugations_from_table *)

w_nous == <<"n", "o", "u", "s">>
w_vous == <<"v", "o", "u", "s">>

\* the list of the "Check if this is a tense header" test
tense_headers == {T_Present, T_Imparfait, T_PasseSimple, T_PasseCompose, T_FuturSimple}

\* "Handle Passe compose specially": pronoun cell "je me suis", form cell "assis"
pronominal_passe_compose(pronoun_cell, form_cell) ==
    IF contains(sp, pronoun_cell)
    THEN LET parts == split(pronoun_cell)
         IN  IF Len(parts) >= 3 THEN join(sp, Tail(parts)) \o sp \o form_cell
             ELSE IF Len(parts) = 2 THEN parts[2] \o sp \o form_cell
             ELSE pronoun_cell \o sp \o form_cell
    ELSE form_cell

\* the other tenses: "je m'" + "assieds", "nous nous" + "asseyons"
pronominal_simple(pronoun_cell, form_cell) ==
    IF contains(sp, pronoun_cell)
    THEN LET parts == split(pronoun_cell)
         IN  IF Len(parts) >= 2
             THEN LET pronominal_part == parts[Len(parts)]
                  IN  IF pronominal_part \in {w_nous, w_vous}
                      THEN pronominal_part \o sp \o form_cell
                      ELSE pronominal_part \o form_cell
             ELSE form_cell
    ELSE form_cell

\* block_done that lets a seventh row into the block
block_done_late(counted) == counted > 6

\* "After 6 persons, we're done with this tense"
block_done(counted) == counted >= 6

\* the state of the row loop before the first row
pronominal_start == [current_tense |-> None, row_in_tense |-> 0, conjugations |-> <<>>]

\* one iteration of "for row_idx, row in enumerate(all_rows)"
pronominal_row(st, current_mood, cells) ==
    IF cells = <<>> THEN st
    ELSE IF strip(cells[1]) \in tense_headers
    THEN [st EXCEPT !.current_tense = strip(cells[1]), !.row_in_tense = 0]
    ELSE IF /\ st.current_tense # None
            /\ current_mood # None
            /\ st.current_tense \in required_tenses(current_mood)
            /\ Len(cells) >= 2
    THEN LET pronoun_cell == replace(strip(cells[1]), <<"U00A0">>, sp)
             form_cell == strip(cells[2])
             conjugated_form ==
                 IF st.current_tense = T_PasseCompose
                 THEN pronominal_passe_compose(pronoun_cell, form_cell)
                 ELSE pronominal_simple(pronoun_cell, form_cell)
             emit == keep_form(conjugated_form) /\ st.row_in_tense < Len(persons)
             rec == [conjugated_form |-> rstrip(conjugated_form, trailing_punctuation),
                     transcription |-> row_pronunciation(cells),
                     mood |-> current_mood,
                     tense |-> tense_name_of(st.current_tense),
                     person |-> person_number_of(st.row_in_tense)]
             counted == st.row_in_tense + 1
         IN  [current_tense |-> IF block_done(counted) THEN None ELSE st.current_tense,
              row_in_tense |-> IF block_done(counted) THEN 0 ELSE counted,
              conjugations |-> IF emit THEN Append(st.conjugations, rec) ELSE st.conjugations]
    ELSE st

RECURSIVE pronominal_rows(_, _, _)
pronominal_rows(st, current_mood, rows) ==
    IF rows = <<>> THEN st
    ELSE pronominal_rows(pronominal_row(st, current_mood, Head(rows)), current_mood, Tail(rows))

\* _extract_pronominal_conjugations_from_table(table, verb, variant)
extract_pronominal_conjugations_from_table(table) ==
    pronominal_rows(pronominal_start, pronominal_mood(table), table.rows).conjugations

-----------------------------------------------------------------------------
(* Dual-variant extractor: parse_sasseoir_conjugations *)

w_nous_nous == <<"n", "o", "u", "s", " ", "n", "o", "u", "s">>
w_ou == <<" ", "o", "u", " ">>

assieds_stems ==
    { <<"a", "s", "s", "i", "e", "d", "s">>, <<"a", "s", "s", "i", "e", "d">>,
      <<"a", "s", "s", "e", "y", "o", "n", "s">>, <<"a", "s", "s", "e", "y", "e", "z">>,
      <<"a", "s", "s", "e", "y", "e", "n", "t">>, <<"a", "s", "s", "e", "y", "e">>,
      <<"a", "s", "s", "e", "y", "i", "o", "n", "s">>, <<"a", "s", "s", "i", "U00E9", "r">> }

assois_stems ==
    { <<"a", "s", "s", "o", "i", "s">>, <<"a", "s", "s", "o", "i", "t">>,
      <<"a", "s", "s", "o", "y", "o", "n", "s">>, <<"a", "s", "s", "o", "y", "e", "z">>,
      <<"a", "s", "s", "o", "i", "e", "n", "t">>, <<"a", "s", "s", "o", "i", "e">>,
      <<"a", "s", "s", "o", "y", "i", "o", "n", "s">>,
      <<"a", "s", "s", "o", "i", "r", "a", "i", "e", "n", "t">> }

\* table.get_text(): the texts of the cells in document order
table_text(table) == concat([i \in 1..Len(table.rows) |-> concat(table.rows[i])])

\* the if/elif classification of one table: "assieds", "assois" or "none"
variant_of(table) ==
    LET text == table_text(table)
    IN  IF ~contains(w_nous_nous, text) THEN "none"
        ELSE IF \E stem \in assieds_stems : contains(stem, text) THEN "assieds"
        ELSE IF \E stem \in assois_stems : contains(stem, text) THEN "assois"
        ELSE "none"

\* missing_variant with "and" in place of "or"
missing_variant_both(assieds_tables, assois_tables) ==
    assieds_tables = <<>> /\ assois_tables = <<>>

\* "if not assieds_tables or not assois_tables"
missing_variant(assieds_tables, assois_tables) ==
    assieds_tables = <<>> \/ assois_tables = <<>>

RECURSIVE extract_all(_)
\* the extend loop over the tables of one variant
extract_all(tables) ==
    IF tables = <<>> THEN <<>>
    ELSE extract_pronominal_conjugations_from_table(Head(tables)) \o extract_all(Tail(tables))

key_of(conj) == <<conj.mood, conj.tense, conj.person>>

\* position of key in the insertion-ordered dict, 0 when absent
key_index(combined, key) ==
    IF \E i \in 1..Len(combined) : combined[i].key = key
    THEN CHOOSE i \in 1..Len(combined) : combined[i].key = key
    ELSE 0

RECURSIVE put_assieds(_, _)
\* "combined[key] = {'assieds': conj}" for every assieds record
put_assieds(combined, conjs) ==
    IF conjs = <<>> THEN combined
    ELSE LET conj == Head(conjs)
             i == key_index(combined, key_of(conj))
             entry == [key |-> key_of(conj), assieds |-> conj, assois |-> <<>>]
         IN  put_assieds(IF i = 0 THEN Append(combined, entry)
                         ELSE [combined EXCEPT ![i] = entry], Tail(conjs))

RECURSIVE put_assois_inserting(_, _)
\* put_assois without the membership test: an assois record creates its key
put_assois_inserting(combined, conjs) ==
    IF conjs = <<>> THEN combined
    ELSE LET conj == Head(conjs)
             i == key_index(combined, key_of(conj))
             entry == [key |-> key_of(conj), assieds |-> conj, assois |-> <<conj>>]
         IN  put_assois_inserting(IF i = 0 THEN Append(combined, entry)
                                  ELSE [combined EXCEPT ![i].assois = <<conj>>], Tail(conjs))

RECURSIVE put_assois(_, _)
\* "if key in combined: combined[key]['assois'] = conj" for every assois record
put_assois(combined, conjs) ==
    IF conjs = <<>> THEN combined
    ELSE LET conj == Head(conjs)
             i == key_index(combined, key_of(conj))
         IN  put_assois(IF i = 0 THEN combined
                        ELSE [combined EXCEPT ![i].assois = <<conj>>], Tail(conjs))

\* combined_form_of with the two variants in the other order
combined_form_swapped(assieds_form, assois_form) ==
    IF assieds_form # assois_form THEN assois_form \o w_ou \o assieds_form ELSE assieds_form

\* "Combine with ou only if different"
combined_form_of(assieds_form, assois_form) ==
    IF assieds_form # assois_form THEN assieds_form \o w_ou \o assois_form ELSE assieds_form

\* "Combine pronunciation (if available)"
combined_pron_of(pron1, pron2) ==
    IF pron1 # <<>> /\ pron2 # <<>> /\ pron1 # pron2 THEN pron1 \o w_ou \o pron2
    ELSE IF pron1 # <<>> THEN pron1 ELSE pron2

\* "if 'assieds' in variants and 'assois' in variants"
has_both(entry) == entry.assois # <<>>

RECURSIVE create_combined(_, _)
\* "Create combined entries with ou"
create_combined(combined, verb) ==
    IF combined = <<>> THEN <<>>
    ELSE LET e == Head(combined)
             rest == create_combined(Tail(combined), verb)
         IN  IF has_both(e)
             THEN << [id |-> conjugation_id_of(verb, e.key[1], e.key[2], e.key[3]),
                      infinitive |-> verb,
                      conjugated_form |-> combined_form_of(e.assieds.conjugated_form,
                                                           e.assois[1].conjugated_form),
                      transcription |-> combined_pron_of(e.assieds.transcription,
                                                         e.assois[1].transcription),
                      mood |-> e.key[1],
                      tense |-> e.key[2],
                      person |-> e.key[3]] >> \o rest
             ELSE rest

\* "return self.parse_conjugation_table(soup, verb)" after the warning
fall_back(r) == [raised |-> r.raised, conjugations |-> r.conjugations, warned |-> TRUE]

\* parse_sasseoir_conjugations once the tables of both variants are collected
combine_variants(soup, verb, assieds_tables, assois_tables) ==
    IF missing_variant(assieds_tables, assois_tables)
    THEN fall_back(parse_conjugation_table(soup, verb))
    ELSE [raised |-> FALSE,
          conjugations |->
              create_combined(put_assois(put_assieds(<<>>, extract_all(assieds_tables)),
                                         extract_all(assois_tables)), verb),
          warned |-> FALSE]

\* parse_sasseoir_conjugations(soup, verb); warned records the "Warning:" print
parse_sasseoir_conjugations(soup, verb) ==
    combine_variants(soup, verb,
                     SelectSeq(soup, LAMBDA t : variant_of(t) = "assieds"),
                     SelectSeq(soup, LAMBDA t : variant_of(t) = "assois"))

-----------------------------------------------------------------------------
(* Batch driver: scrape_verb, scrape_verbs_from_file, write_csv *)

v_sasseoir == <<"s", "U2019", "a", "s", "s", "e", "o", "i", "r">>

\* the list scrape_verb returns, with the extractor that produced it
scraped(r, extractor) ==
    [raised |-> r.raised, conjugations |-> r.conjugations, extractor |-> extractor]

\* scrape_verb without the "if not html: return []" guard: parsing None raises
scrape_verb_unguarded(verb, html) ==
    IF ~html.ok THEN scraped(Raised, "none")
    ELSE IF verb = v_sasseoir
    THEN scraped(parse_sasseoir_conjugations(html.soup, verb), "sasseoir")
    ELSE scraped(parse_conjugation_table(html.soup, verb), "standard")

\* scrape_verb(verb) when fetch_page returned html
scrape_verb(verb, html) ==
    IF ~html.ok THEN scraped(Returned(<<>>), "none")
    ELSE IF verb = v_sasseoir
    THEN scraped(parse_sasseoir_conjugations(html.soup, verb), "sasseoir")
    ELSE scraped(parse_conjugation_table(html.soup, verb), "standard")

RECURSIVE deduplicate_without_add(_, _, _)
\* deduplicate with "seen_ids.add(conjugation['id'])" left out
deduplicate_without_add(all, seen, conjugations) ==
    IF conjugations = <<>> THEN [all |-> all, seen |-> seen]
    ELSE LET conjugation == Head(conjugations)
         IN  IF conjugation.id \notin seen
             THEN deduplicate_without_add(Append(all, conjugation), seen, Tail(conjugations))
             ELSE deduplicate_without_add(all, seen, Tail(conjugations))

RECURSIVE deduplicate(_, _, _)
\* "Deduplicate conjugations": the inner loop over one verb's records
deduplicate(all, seen, conjugations) ==
    IF conjugations = <<>> THEN [all |-> all, seen |-> seen]
    ELSE LET conjugation == Head(conjugations)
         IN  IF conjugation.id \notin seen
             THEN deduplicate(Append(all, conjugation), seen \cup {conjugation.id},
                              Tail(conjugations))
             ELSE deduplicate(all, seen, Tail(conjugations))

\* propagates with the call of scrape_verb wrapped in try/except
propagates_caught(r) == FALSE

\* an exception raised by scrape_verb leaves the loop over verbs: no handler encloses the call
propagates(r) == r.raised

\* the row written for one record
csv_row(conjugation) ==
    << replace(conjugation.id, unicode_apostrophe, apostrophe),
       replace(conjugation.infinitive, unicode_apostrophe, apostrophe),
       replace(conjugation.conjugated_form, unicode_apostrophe, apostrophe),
       conjugation.transcription,
       conjugation.mood,
       conjugation.tense,
       conjugation.person >>

\* write_csv(conjugations, output_file)
write_csv(conjugations) == [i \in 1..Len(conjugations) |-> csv_row(conjugations[i])]

-----------------------------------------------------------------------------
(* Inputs: verbs, cell texts, tables and pages *)

v_diner == <<"d", "U00EE", "n", "e", "r">>
v_sasseoir_ascii == <<"s", "'", "a", "s", "s", "e", "o", "i", "r">>
x_Indicatif == <<"I", "n", "d", "i", "c", "a", "t", "i", "f">>
x_Subjonctif == <<"S", "u", "b", "j", "o", "n", "c", "t", "i", "f">>
x_Conditionnel == <<"C", "o", "n", "d", "i", "t", "i", "o", "n", "n", "e", "l">>
x_subj_ind == <<"s", "u", "b", "j", "o", "n", "c", "t", "i", "f", " ", "e", "t", " ", "i", "n", "d", "i", "c", "a", "t", "i", "f">>
x_cond_subj == <<"c", "o", "n", "d", "i", "t", "i", "o", "n", "n", "e", "l", ",", " ", "s", "u", "b", "j", "o", "n", "c", "t", "i", "f">>
x_Temps == <<" ", "T", "e", "m", "p", "s", " ">>
c_je == <<"j", "e">>
c_tu == <<"t", "u">>
c_nous == <<"n", "o", "u", "s">>
c_tu_as == <<"t", "u", " ", "a", "s">>
c_jai == <<"j", "U2019", "a", "i">>
c_jai_ascii == <<"j", "'", "a", "i">>
c_dine == <<"d", "U00EE", "n", "e">>
c_dines == <<"d", "U00EE", "n", "e", "s">>
c_dine_alt == <<"d", "i", "n", "e">>
c_dine_p == <<" ", "d", "U00EE", "n", "U00E9", ".", " ">>
c_dine_pp == <<"d", "U00EE", "n", "U00E9">>
c_dy == <<"d", "y">>
c_set == <<"BSL", "s", "U025B", "t", "BSL">>
c_din == <<"BSL", "d", "i", "n", "BSL">>
c_je_m == <<"j", "e", " ", "m", "U2019">>
c_je_m_ascii == <<"j", "e", " ", "m", "'">>
c_nous_nous == <<"n", "o", "u", "s", " ", "n", "o", "u", "s">>
c_je_me_suis == <<"j", "e", " ", "m", "e", " ", "s", "u", "i", "s">>
c_assieds == <<"a", "s", "s", "i", "e", "d", "s">>
c_asseyons == <<"a", "s", "s", "e", "y", "o", "n", "s">>
c_asseyez == <<"a", "s", "s", "e", "y", "e", "z", ".">>
c_asseyions == <<"a", "s", "s", "e", "y", "i", "o", "n", "s">>
c_assois == <<"a", "s", "s", "o", "i", "s">>
c_assoyons == <<"a", "s", "s", "o", "y", "o", "n", "s">>
c_assoyions == <<"a", "s", "s", "o", "y", "i", "o", "n", "s">>
c_assoie == <<"a", "s", "s", "o", "i", "e">>
c_assis == <<"a", "s", "s", "i", "s">>
c_pronA == <<"BSL", "a", ".", "s", "j", "e", "BSL">>
c_pronB == <<"BSL", "a", ".", "s", "w", "a", "BSL">>
f_dot == <<".">>
f_dots == <<".", ".", ".">>
f_hyphen == <<"-">>
f_hyphen_dot == <<"-", ".">>
f_emdash == <<"U2014">>
f_emdash_bang == <<"U2014", "!">>
f_blank == <<" ">>
f_PRESENT == <<"P", "R", "U00C9", "S", "E", "N", "T">>
f_present_dot == <<"p", "r", "U00E9", "s", "e", "n", "t", ".">>
f_passe_compose == <<"p", "a", "s", "s", "U00E9", " ", "c", "o", "m", "p", "o", "s", "U00E9">>
f_Imparfait_q == <<"I", "m", "p", "a", "r", "f", "a", "i", "t", "?">>

Seqs(S, n) == UNION {[1..k -> S] : k \in 0..n}

Elem(tag, text) == [tag |-> tag, text |-> text]
Table(prev, rows) == [prev |-> prev, rows |-> rows]

\* a page of a regular verb: one Present table under an Indicatif heading
PageSimple ==
    << Table(<<Elem("p", x_Temps), Elem("h3", x_Indicatif)>>,
             << <<T_Present>>, <<c_je, c_dine, c_din>>, <<c_tu, c_dines>> >>) >>

\* two tables of the same mood and tense, with different forms
PageTwoTables ==
    << Table(<<Elem("h3", x_Indicatif)>>, << <<T_Present>>, <<c_je, c_dine>> >>),
       Table(<<Elem("span", x_Subjonctif), Elem("h3", x_Indicatif)>>,
             << <<T_Present>>, <<c_je, c_dine_alt>>, <<c_tu, c_dines>> >>) >>

\* a Passe compose table whose second row has no auxiliary
PageBadAuxiliary ==
    << Table(<<Elem("h3", x_Indicatif)>>,
             << <<T_PasseCompose>>, <<c_jai, c_dine_pp>>, <<c_nous, c_dine_pp>> >>) >>

\* a page with both paradigms of the pronominal verb
PageTwoVariants ==
    << Table(<<Elem("h3", x_Indicatif)>>,
             << <<T_Present>>, <<c_je_m, c_assieds, c_pronA>>, <<c_nous_nous, c_asseyons>> >>),
       Table(<<Elem("h3", x_Indicatif)>>,
             << <<T_Present>>, <<c_je_m, c_assois, c_pronB>>, <<c_nous_nous, c_assoyons>> >>) >>

Pages == {PageSimple, PageTwoTables, PageBadAuxiliary, PageTwoVariants}

Verbs == {v_diner, v_sasseoir, v_sasseoir_ascii}

-----------------------------------------------------------------------------
(* Specification of the batch driver *)

ExtractorIdle == arg = None /\ ret = NotCalled

Init ==
    /\ verbs \in Seqs(Verbs, MaxVerbs)
    /\ idx = 1
    /\ all_conjugations = <<>>
    /\ seen_ids = {}
    /\ pc = "loop"
    /\ csv_rows = <<>>
    /\ handed = <<>>
    /\ trace = <<>>
    /\ ExtractorIdle

\* the rest of one iteration once scrape_verb has returned or raised r
AfterScrape(html, r) ==
    /\ trace' = Append(trace, [verb |-> verbs[idx], fetched |-> html.ok,
                               extractor |-> r.extractor, raised |-> r.raised,
                               conjugations |-> r.conjugations])
    /\ IF propagates(r)
       THEN /\ pc' = "raised"
            /\ UNCHANGED <<idx, all_conjugations, seen_ids>>
       ELSE /\ all_conjugations' = deduplicate(all_conjugations, seen_ids, r.conjugations).all
            /\ seen_ids' = deduplicate(all_conjugations, seen_ids, r.conjugations).seen
            /\ idx' = idx + 1
            /\ pc' = pc

\* one iteration of "for verb in verbs" with the page the fetch returned
LoopBody(html) ==
    /\ pc = "loop"
    /\ idx <= Len(verbs)
    /\ AfterScrape(html, scrape_verb(verbs[idx], html))
    /\ UNCHANGED <<verbs, csv_rows, handed, arg, ret>>

\* fetch_page caught a RequestException and returned None
ScrapeFetchFailed == LoopBody(FetchFailed)

\* fetch_page returned a page
ScrapeFetched == \E soup \in Pages : LoopBody(Fetched(soup))

\* the loop is over: write_csv(all_conjugations, output_file)
WriteCsv ==
    /\ pc = "loop"
    /\ idx > Len(verbs)
    /\ handed' = all_conjugations
    /\ csv_rows' = write_csv(all_conjugations)
    /\ pc' = "done"
    /\ UNCHANGED <<verbs, idx, all_conjugations, seen_ids, trace, arg, ret>>

Next == ScrapeFetchFailed \/ ScrapeFetched \/ WriteCsv

Spec == Init /\ [][Next]_vars

-----------------------------------------------------------------------------
(* Properties of the batch driver *)

\* every record the scrape_verb calls returned so far, in processing order
Produced == concat([k \in 1..Len(trace) |-> trace[k].conjugations])

\* the records of recs whose id occurs at no earlier position, in order
FirstOccurrences(recs) ==
    LET F[i \in 0..Len(recs)] ==
            IF i = 0 THEN <<>>
            ELSE IF \A j \in 1..(i - 1) : recs[j].id # recs[i].id
                 THEN Append(F[i - 1], recs[i])
                 ELSE F[i - 1]
    IN  F[Len(recs)]

\* C1: the sequence handed to the writer has pairwise distinct ids, and it is the
\* sequence of the first record produced for each id, in production order.
C1_UniqueFirstSeen ==
    pc = "done" =>
        /\ \A i, j \in 1..Len(handed) : i # j => handed[i].id # handed[j].id
        /\ handed = FirstOccurrences(Produced)

\* a finished run in which a later record with an id already seen, and a different
\* content, was dropped
C1_Witness ==
    /\ pc = "done"
    /\ \E i, j \in 1..Len(Produced) :
           /\ i < j
           /\ Produced[i].id = Produced[j].id
           /\ Produced[i] # Produced[j]
    /\ Len(handed) < Len(Produced)

\* C2 as stated: an extraction failure aborts that verb only, the driver goes on
\* (it is still in its loop, or it has called the writer).
C2_AbortsVerbOnly ==
    (\E k \in 1..Len(trace) : trace[k].raised) => pc \in {"loop", "done"}

\* C2, what the code does: an extraction failure leaves the driver at the failing verb: it is
\* the last verb scraped, the writer is never called and nothing is written.
C2_AbortsBatch ==
    /\ \A k \in 1..Len(trace) :
           trace[k].raised =>
               /\ k = Len(trace)
               /\ idx = k
               /\ pc = "raised"
               /\ handed = <<>> /\ csv_rows = <<>>
    /\ pc = "raised" => trace # <<>> /\ trace[Len(trace)].raised

\* the extraction of a verb raised after records of another verb were collected
\* and before the last verb of the list was reached
C2_Witness ==
    /\ pc = "raised"
    /\ trace[Len(trace)].extractor = "standard"
    /\ all_conjugations # <<>>
    /\ idx < Len(verbs)

\* C3 as stated: a failed fetch yields no record and calls no extractor, and the
\* batch is never aborted after it.
C3_BatchAlwaysCompletes ==
    \A k \in 1..Len(trace) :
        ~trace[k].fetched =>
            /\ trace[k].extractor = "none"
            /\ trace[k].conjugations = <<>>
            /\ pc # "raised"

\* C3, what the code does: a failed fetch yields no record, calls no extractor and raises
\* nothing; the loop goes on with the next verb; the driver stops early only on
\* the extraction error of a fetched verb, and otherwise scrapes every verb and
\* hands the records of the fetched verbs to the writer.
C3_FetchFailureContinues ==
    /\ \A k \in 1..Len(trace) :
           ~trace[k].fetched =>
               /\ trace[k].extractor = "none"
               /\ trace[k].conjugations = <<>>
               /\ ~trace[k].raised
               /\ k < idx
    /\ pc = "raised" => trace[Len(trace)].fetched /\ trace[Len(trace)].raised
    /\ pc = "loop" => idx = Len(trace) + 1
    /\ pc = "done" =>
           /\ Len(trace) = Len(verbs)
           /\ \A k \in 1..Len(trace) : trace[k].fetched =>
                  \A i \in 1..Len(trace[k].conjugations) :
                      \E j \in 1..Len(handed) : handed[j].id = trace[k].conjugations[i].id

\* a finished run in which a fetch failed and a later verb was scraped and written
C3_Witness ==
    /\ pc = "done"
    /\ \E k \in 1..(Len(trace) - 1) :
           /\ ~trace[k].fetched
           /\ trace[k + 1].fetched
           /\ trace[k + 1].conjugations # <<>>
    /\ handed # <<>>

\* C12: the rows write_csv wrote have pairwise distinct ids (first column), also
\* when the list holds both the U+2019 and the ASCII spelling of one verb.
C12_CsvIdsDistinct ==
    pc = "done" =>
        \A i, j \in 1..Len(csv_rows) : csv_rows[i][1] = csv_rows[j][1] => i = j

-----------------------------------------------------------------------------
(* Specification of the standard extractor on one table *)

DriverIdle ==
    /\ verbs = <<>>
    /\ idx = 1
    /\ all_conjugations = <<>>
    /\ seen_ids = {}
    /\ pc = "idle"
    /\ csv_rows = <<>>
    /\ handed = <<>>
    /\ trace = <<>>

\* the value an extractor returned (or the exception it raised)
Called(r) == [called |-> TRUE, raised |-> r.raised, conjugations |-> r.conjugations]

PrevIndicatif == <<Elem("h3", x_Indicatif)>>
PrevSubjonctif == <<Elem("p", x_Temps), Elem("h4", x_Subjonctif)>>
PrevNoMood == <<Elem("p", x_Temps)>>

RowTwoCells == <<c_tu_as, c_dine_pp>>
RowFourCells == <<c_jai, c_dine_p, c_dy, c_set>>
RowOneCell == <<c_nous>>

ValidRows == {RowTwoCells, RowFourCells}

TableInputs ==
    { [soup |-> << Table(prev, << <<hdr>> >> \o rows) >>, verb |-> v_diner] :
        prev \in {PrevIndicatif, PrevSubjonctif, PrevNoMood},
        hdr \in {T_Present, T_PasseCompose, T_FuturSimple},
        rows \in Seqs(ValidRows \cup {RowOneCell}, MaxRows) }

InitTable == DriverIdle /\ arg \in TableInputs /\ ret = NotCalled

\* parse_conjugation_table(soup, verb) on the document of arg
ParseTable ==
    /\ ~ret.called
    /\ ret' = Called(parse_conjugation_table(arg.soup, arg.verb))
    /\ UNCHANGED <<driver_vars, arg>>

NextTable == ParseTable

SpecTable == InitTable /\ [][NextTable]_vars

e_dine_pp == <<"d", "U00EE", "n", "U00E9">>
e_as_dine == <<"a", "s", " ", "d", "U00EE", "n", "U00E9">>
e_ai_dine == <<"a", "i", " ", "d", "U00EE", "n", "U00E9">>

\* the header label is on the allow-list of the mood the headings give the table
AllowListed(prev, hdr) ==
    \/ prev = PrevIndicatif
    \/ prev = PrevSubjonctif /\ hdr = T_Present

\* the person of PersonSlot entry k (k = 0..5)
PersonSlot(k) == persons[k + 1][1] \o <<"_">> \o persons[k + 1][2]

\* the form a valid row gives under a header
ExpectedForm(row, hdr) ==
    IF hdr # T_PasseCompose THEN e_dine_pp
    ELSE IF row = RowTwoCells THEN e_as_dine ELSE e_ai_dine

\* the j-th smallest element of a set of numbers
Nth(S, j) == CHOOSE k \in S : Cardinality({m \in S : m < k}) = j - 1

\* C4: an accepted table yields one record per valid data row of index 0..5, in row
\* order, each with the person of PersonSlot entry (row index): 6 valid rows give the
\* 6 persons in order, fewer rows give the rows present, rows of index 6 and more give
\* nothing.
C4_RowsToPersons ==
    (ret.called /\ AllowListed(arg.soup[1].prev, arg.soup[1].rows[1][1])) =>
        LET rows == Tail(arg.soup[1].rows)
            hdr == arg.soup[1].rows[1][1]
            kept == {k \in 0..(Len(rows) - 1) : k <= 5 /\ rows[k + 1] \in ValidRows}
            recs == ret.conjugations
        IN  /\ ~ret.raised
            /\ Len(recs) = Cardinality(kept)
            /\ \A j \in 1..Len(recs) :
                   /\ recs[j].person = PersonSlot(Nth(kept, j))
                   /\ recs[j].conjugated_form = ExpectedForm(rows[Nth(kept, j) + 1], hdr)
            /\ (Len(rows) = 6 /\ \A k \in 1..6 : rows[k] \in ValidRows) =>
                   /\ Len(recs) = 6
                   /\ \A k \in 0..5 : recs[k + 1].person = PersonSlot(k)

\* an accepted table of exactly 6 valid rows gave 6 records
C4_Witness ==
    /\ ret.called
    /\ AllowListed(arg.soup[1].prev, arg.soup[1].rows[1][1])
    /\ Len(arg.soup[1].rows) = 7
    /\ \A k \in 2..7 : arg.soup[1].rows[k] \in ValidRows
    /\ Len(ret.conjugations) = 6
    /\ ret.conjugations[6].person = PersonSlot(5)

-----------------------------------------------------------------------------
(* Specification of the standard extractor on one data row *)

\* forms of the second cell of a row
FormChoices ==
    { c_dine, c_dine_p, f_dot, f_dots, f_hyphen, f_hyphen_dot, f_emdash, f_emdash_bang,
      f_blank, <<>>, T_Present, f_PRESENT, f_present_dot, T_PasseCompose, f_passe_compose,
      f_Imparfait_q, T_FuturSimple }

\* the characters of the first cell of a Passe compose row
AuxAlphabet == {"j", "J", "'", "U2019", " ", "a"}

Participles == {<<>>, c_dine_pp, c_dine_p}

OneRow(hdr, row) ==
    [soup |-> << Table(PrevIndicatif, << <<hdr>>, row >>) >>, verb |-> v_diner]

RowInputs ==
    { OneRow(hdr, <<c0, form>>) :
        hdr \in {T_Present, T_PasseCompose}, c0 \in {c_je, c_tu_as}, form \in FormChoices }
    \cup
    { OneRow(T_PasseCompose, <<c0, participle>>) :
        c0 \in Seqs(AuxAlphabet, MaxCellLen) \cup {c_jai, c_jai_ascii, c_tu_as, c_nous},
        participle \in Participles }

InitRow == DriverIdle /\ arg \in RowInputs /\ ret = NotCalled

\* parse_conjugation_table(soup, verb) on the one-row table of arg
ParseRow ==
    /\ ~ret.called
    /\ ret' = Called(parse_conjugation_table(arg.soup, arg.verb))
    /\ UNCHANGED <<driver_vars, arg>>

NextRow == ParseRow

SpecRow == InitRow /\ [][NextRow]_vars

\* the five known tense labels, lower-cased
KnownLabels ==
    { lower(T_Present), lower(T_Imparfait), lower(T_PasseSimple), lower(T_PasseCompose),
      lower(T_FuturSimple) }

\* C9: every emitted record has a form that, with trailing punctuation stripped, is
\* not empty, is neither an em dash nor a hyphen, and is not a known tense label in
\* any letter case.
C9_NoPlaceholderOrLabel ==
    ret.called =>
        \A i \in 1..Len(ret.conjugations) :
            LET cleaned == rstrip(ret.conjugations[i].conjugated_form, trailing_punctuation)
            IN  /\ cleaned # <<>>
                /\ cleaned \notin {f_emdash, f_hyphen}
                /\ lower(cleaned) \notin KnownLabels

TheRow == arg.soup[1].rows[2]
TheHeader == arg.soup[1].rows[1][1]

\* the text after the last whitespace character of a trimmed text
LastToken(text) ==
    LET gaps == {i \in 1..Len(text) : text[i] \in Whitespace}
    IN  IF gaps = {} THEN text
        ELSE SubSeq(text, (CHOOSE i \in gaps : \A g \in gaps : g <= i) + 1, Len(text))

\* the row raised and nothing was emitted
RowRaised == ret.raised /\ ret.conjugations = <<>>

\* the row gave exactly one record, with this form
RowGave(form) ==
    /\ ~ret.raised
    /\ Len(ret.conjugations) = 1
    /\ ret.conjugations[1].conjugated_form = form

\* C10 as stated, on the trimmed cells and up to the stripping of trailing
\* punctuation: after "j'" or "J'" the form is the rest of cell[0], a space and the
\* participle; else with a space in cell[0] it is the last token, a space and the
\* participle; every other row raises.
C10_AsStated ==
    (ret.called /\ TheHeader = T_PasseCompose) =>
        LET c0 == strip(TheRow[1])
            participle == strip(TheRow[2])
            rest == strip(SubSeq(c0, 3, Len(c0)))
        IN  IF participle = <<>> THEN RowRaised
            ELSE IF startswith(c0, <<"j", "'">>) \/ startswith(c0, <<"J", "'">>)
            THEN (IF rest # <<>>
                  THEN RowGave(rstrip(rest \o sp \o participle, trailing_punctuation))
                  ELSE RowRaised)
            ELSE IF contains(sp, c0)
            THEN RowGave(rstrip(LastToken(c0) \o sp \o participle, trailing_punctuation))
            ELSE RowRaised

\* C10 amended: cell[0] is trimmed and its typographic apostrophes made ASCII; after
\* "j'" or "J'" the auxiliary is that text with every "j'" and every "J'" removed,
\* trimmed; else with a space it is the last token; with a non-empty auxiliary and a
\* non-empty trimmed participle the record carries auxiliary, space, participle with
\* trailing punctuation stripped (no record when that is a header label); every
\* other row raises.
C10_Recombination ==
    (ret.called /\ TheHeader = T_PasseCompose) =>
        LET c0 == replace(strip(TheRow[1]), unicode_apostrophe, apostrophe)
            participle == strip(TheRow[2])
            auxiliary ==
                IF startswith(c0, <<"j", "'">>) \/ startswith(c0, <<"J", "'">>)
                THEN strip(replace(replace(c0, <<"j", "'">>, <<>>), <<"J", "'">>, <<>>))
                ELSE IF contains(sp, c0) THEN LastToken(c0)
                ELSE <<>>
            form == rstrip(auxiliary \o sp \o participle, trailing_punctuation)
        IN  IF auxiliary = <<>> \/ participle = <<>> THEN RowRaised
            ELSE IF lower(form) \in header_like THEN ~ret.raised /\ ret.conjugations = <<>>
            ELSE RowGave(form)

\* the row "j(U+2019)ai" | "dine" (participle with accents) gave "ai dine"
C10_Witness ==
    /\ ret.called
    /\ TheHeader = T_PasseCompose
    /\ TheRow = <<c_jai, c_dine_pp>>
    /\ RowGave(e_ai_dine)

-----------------------------------------------------------------------------
(* Specification of the dual-variant extractor *)

c_me_suis_assis == <<"m", "e", " ", "s", "u", "i", "s", " ", "a", "s", "s", "i", "s">>

\* variant A: Present (two persons) and Passe compose
TableA1 ==
    Table(PrevIndicatif,
          << <<T_Present>>, <<c_je_m, c_assieds, c_pronA>>, <<c_nous_nous, c_asseyons>>,
             <<T_PasseCompose>>, <<c_je_me_suis, c_assis>> >>)

\* variant A: another form for the first person of the Present
TableA2 == Table(PrevIndicatif, << <<T_Present>>, <<c_nous_nous, c_asseyez>> >>)

\* variant A under a Subjonctif heading
TableA3 == Table(<<Elem("h4", x_Subjonctif)>>, << <<T_Present>>, <<c_nous_nous, c_asseyions>> >>)

\* variant B: Present (one person), Imparfait and Passe compose
TableB1 ==
    Table(PrevIndicatif,
          << <<T_Present>>, <<c_je_m, c_assois, c_pronB>>,
             <<T_Imparfait>>, <<c_nous_nous, c_assoyions>>,
             <<T_PasseCompose>>, <<c_je_me_suis, c_assis>> >>)

\* variant B under a Subjonctif heading
TableB2 == Table(PrevSubjonctif, << <<T_Present>>, <<c_nous_nous, c_assoyions>> >>)

\* a table without the reflexive marker
TablePlain == Table(PrevIndicatif, << <<T_Present>>, <<c_je, c_dine>> >>)

VariantATables == {TableA1, TableA2, TableA3}
VariantBTables == {TableB1, TableB2}

DualInputs ==
    { [soup |-> soup, verb |-> v_sasseoir] :
        soup \in Seqs(VariantATables \cup VariantBTables \cup {TablePlain}, MaxSoup) }

InitDual == DriverIdle /\ arg \in DualInputs /\ ret = NotCalled

\* what parse_sasseoir_conjugations returned, with its warning
CalledDual(r) ==
    [called |-> TRUE, raised |-> r.raised, conjugations |-> r.conjugations, warned |-> r.warned]

\* parse_sasseoir_conjugations(soup, verb) on the document of arg
ParseSasseoir ==
    /\ ~ret.called
    /\ ret' = CalledDual(parse_sasseoir_conjugations(arg.soup, arg.verb))
    /\ UNCHANGED <<driver_vars, arg>>

NextDual == ParseSasseoir

SpecDual == InitDual /\ [][NextDual]_vars

\* the tables of the document that belong to a set of tables, in document order
TablesIn(soup, S) == SelectSeq(soup, LAMBDA t : t \in S)

\* no table of variant A, or no table of variant B
VariantMissing ==
    TablesIn(arg.soup, VariantATables) = <<>> \/ TablesIn(arg.soup, VariantBTables) = <<>>

\* the records the row extractor gives for the tables of one variant
VariantRecords(S) == extract_all(TablesIn(arg.soup, S))

KeysOf(recs) == {<<recs[i].mood, recs[i].tense, recs[i].person>> : i \in 1..Len(recs)}

\* the last record of recs with this key
LastWith(recs, key) ==
    recs[CHOOSE i \in 1..Len(recs) :
            /\ <<recs[i].mood, recs[i].tense, recs[i].person>> = key
            /\ \A j \in (i + 1)..Len(recs) : <<recs[j].mood, recs[j].tense, recs[j].person>> # key]

\* C5: with no table of variant A or none of variant B, the dual-variant extractor
\* returns what the standard extractor returns for the same document and verb, and
\* warns.
C5_FallbackIsStandard ==
    (ret.called /\ VariantMissing) =>
        /\ ret.warned
        /\ ret.raised = parse_conjugation_table(arg.soup, arg.verb).raised
        /\ ret.conjugations = parse_conjugation_table(arg.soup, arg.verb).conjugations

\* only variant A is on the page and the fallback returned records
C5_Witness ==
    /\ ret.called
    /\ TablesIn(arg.soup, VariantATables) # <<>>
    /\ TablesIn(arg.soup, VariantBTables) = <<>>
    /\ ret.warned
    /\ ret.conjugations # <<>>

\* C6: without fallback, every emitted record carries "A ou B" when the forms of
\* the two variants for its key differ, and the shared form when they are equal.
C6_MergedForm ==
    (ret.called /\ ~VariantMissing) =>
        \A i \in 1..Len(ret.conjugations) :
            LET key == <<ret.conjugations[i].mood, ret.conjugations[i].tense,
                         ret.conjugations[i].person>>
                a == LastWith(VariantRecords(VariantATables), key).conjugated_form
                b == LastWith(VariantRecords(VariantBTables), key).conjugated_form
            IN  ret.conjugations[i].conjugated_form =
                    IF a # b THEN a \o <<" ", "o", "u", " ">> \o b ELSE a

\* one record was merged with "ou" and another kept the form both variants share
C6_Witness ==
    /\ ret.called
    /\ ~VariantMissing
    /\ \E i, j \in 1..Len(ret.conjugations) :
           /\ contains(<<" ", "o", "u", " ">>, ret.conjugations[i].conjugated_form)
           /\ ret.conjugations[j].conjugated_form = c_me_suis_assis

\* C7: without fallback, the keys of the emitted records are exactly the keys both
\* variants produced, with one record per key.
C7_BothVariantsOnly ==
    (ret.called /\ ~VariantMissing) =>
        /\ ~ret.warned
        /\ KeysOf(ret.conjugations) =
               KeysOf(VariantRecords(VariantATables)) \cap KeysOf(VariantRecords(VariantBTables))
        /\ Len(ret.conjugations) = Cardinality(KeysOf(ret.conjugations))

\* a key of variant A alone, a key of variant B alone and a shared key
C7_Witness ==
    /\ ret.called
    /\ ~VariantMissing
    /\ KeysOf(VariantRecords(VariantATables)) \ KeysOf(VariantRecords(VariantBTables)) # {}
    /\ KeysOf(VariantRecords(VariantBTables)) \ KeysOf(VariantRecords(VariantATables)) # {}
    /\ ret.conjugations # <<>>

-----------------------------------------------------------------------------
(* Specification of the mood resolution *)

MoodTexts == {x_Indicatif, x_Subjonctif, x_Conditionnel, x_subj_ind, x_cond_subj, x_Temps}

Candidates == {Elem(tag, text) : tag \in {"h2", "div", "span"}, text \in MoodTexts}

\* k elements without a mood keyword, then two elements
PrevLists ==
    { [i \in 1..k |-> Elem(tag, x_Temps)] \o <<c1, c2>> :
        k \in 0..MaxFill, tag \in {"h3", "p", "span"}, c1 \in Candidates, c2 \in Candidates }

MoodInputs ==
    { [soup |-> << Table(prev, << <<T_Present>>, <<c_nous_nous, c_asseyons>> >>) >>,
       verb |-> v_sasseoir] : prev \in PrevLists }

InitMood == DriverIdle /\ arg \in MoodInputs /\ ret = NotCalled

\* both extractors on the table of arg, with the mood each resolved
ResolveMood ==
    /\ ~ret.called
    /\ ret' = [called |-> TRUE,
               mood |-> table_mood(arg.soup[1]),
               conjugations |-> parse_conjugation_table(arg.soup, arg.verb).conjugations,
               pronominal_mood |-> pronominal_mood(arg.soup[1]),
               pronominal |-> extract_pronominal_conjugations_from_table(arg.soup[1])]
    /\ UNCHANGED <<driver_vars, arg>>

NextMood == ResolveMood

SpecMood == InitMood /\ [][NextMood]_vars

\* the moods a text names, in any letter case
Named(text) == {kw \in {kw_indicatif, kw_subjonctif, kw_conditionnel} : contains(kw, lower(text))}

\* the candidate elements of a table: the preceding elements with one of the tags
CandidatesOf(table, tags) == SelectSeq(table.prev, LAMBDA e : e.tag \in tags)

\* the mood of the nearest of the first 10 candidates that names a mood
NearestMood(cands) ==
    LET hits == {i \in 1..Len(cands) : i <= 10 /\ Named(cands[i].text) # {}}
    IN  IF hits = {} THEN None
        ELSE LET n == CHOOSE i \in hits : \A h \in hits : i <= h
             IN  IF kw_indicatif \in Named(cands[n].text) THEN kw_indicatif
                 ELSE IF kw_subjonctif \in Named(cands[n].text) THEN kw_subjonctif
                 ELSE kw_conditionnel

\* C8: both extractors resolve the mood of the nearest of at most 10 candidates that
\* names a mood, indicatif before subjonctif before conditionnel within one text, and
\* a table without a mood yields no record.
C8_NearestMoodWins ==
    ret.called =>
        /\ ret.mood = NearestMood(CandidatesOf(arg.soup[1], {"h2", "h3", "h4", "p", "div"}))
        /\ ret.pronominal_mood = NearestMood(CandidatesOf(arg.soup[1], {"h2", "h3", "h4"}))
        /\ ret.mood = None => ret.conjugations = <<>>
        /\ ret.pronominal_mood = None => ret.pronominal = <<>>

\* the nearest candidate names conditionnel and subjonctif, the next one indicatif
C8_Witness ==
    /\ ret.called
    /\ arg.soup[1].prev = <<Elem("h2", x_cond_subj), Elem("h2", x_Indicatif)>>
    /\ ret.mood = kw_subjonctif
    /\ ret.pronominal_mood = kw_subjonctif
    /\ ret.conjugations # <<>>

-----------------------------------------------------------------------------
(* Specification of the row loop of the pronominal extractor *)

\* the rows a table can hold: two tense headers, a data row, a data row with a
\* placeholder form, a row of one cell and a row without cells
PronominalRowChoices ==
    { <<T_Present>>, <<T_FuturSimple>>, <<c_nous_nous, c_asseyons>>, <<c_je, f_emdash>>,
      <<c_je>>, <<>> }

PronominalInputs ==
    { [table |-> Table(prev, <<>>)] : prev \in {PrevIndicatif, PrevSubjonctif, PrevNoMood} }

\* the loop before its first row. block_tense, block_rows and block_records are
\* history: the label of the last header row, and the data rows and the records
\* seen since it; before and row are the loop state and the row of the last step.
LoopStart ==
    [called |-> FALSE, pos |-> 0, st |-> pronominal_start,
     before |-> pronominal_start, row |-> <<>>,
     block_tense |-> None, block_rows |-> 0, block_records |-> 0]

InitPronominal == DriverIdle /\ arg \in PronominalInputs /\ ret = LoopStart

\* a row with a tense label in its first cell
IsHeaderRow(cells) == cells # <<>> /\ strip(cells[1]) \in tense_headers

\* the loop state after the row, with the history of the block brought up to date
AfterRow(cells, current_mood, st) ==
    [called |-> FALSE, pos |-> ret.pos + 1, st |-> st, before |-> ret.st, row |-> cells,
     block_tense |-> IF IsHeaderRow(cells) THEN strip(cells[1]) ELSE ret.block_tense,
     block_rows |->
         IF IsHeaderRow(cells) THEN 0
         ELSE IF /\ Len(cells) >= 2
                 /\ current_mood # None
                 /\ ret.block_tense \in required_tenses(current_mood)
         THEN ret.block_rows + 1
         ELSE ret.block_rows,
     block_records |->
         IF IsHeaderRow(cells) THEN 0
         ELSE ret.block_records + Len(st.conjugations) - Len(ret.st.conjugations)]

\* one iteration of the row loop on the next row of the table
PronominalRow(cells) ==
    /\ ~ret.called
    /\ ret.pos < MaxPronRows
    /\ ret' = AfterRow(cells, pronominal_mood(arg.table),
                       pronominal_row(ret.st, pronominal_mood(arg.table), cells))
    /\ UNCHANGED <<driver_vars, arg>>

\* "return conjugations" after the last row
PronominalReturn ==
    /\ ~ret.called
    /\ ret' = [ret EXCEPT !.called = TRUE]
    /\ UNCHANGED <<driver_vars, arg>>

NextPronominal ==
    \/ \E cells \in PronominalRowChoices : PronominalRow(cells)
    \/ PronominalReturn

SpecPronominal == InitPronominal /\ [][NextPronominal]_vars

\* the records the last step added
NewRecords == SubSeq(ret.st.conjugations, Len(ret.before.conjugations) + 1, Len(ret.st.conjugations))

\* C11: a header row sets current_tense and puts the counter at 0; the counter is
\* in 0..5 at every row; the k-th counted data row after a header gets PersonSlot
\* entry k; after 6 counted rows current_tense is cleared and every row is ignored
\* until the next header row; a tense block gives at most 6 records.
C11_TenseBlocks ==
    /\ ret.st.row_in_tense \in 0..5
    /\ ret.block_records <= 6
    /\ Len(NewRecords) <= 1
    /\ (ret.pos > 0 /\ IsHeaderRow(ret.row)) =>
           /\ ret.st.current_tense = strip(ret.row[1])
           /\ ret.st.row_in_tense = 0
           /\ NewRecords = <<>>
    /\ ret.block_rows < 6 =>
           /\ ret.st.current_tense = ret.block_tense
           /\ ret.st.row_in_tense = ret.block_rows
    /\ ret.block_rows >= 6 =>
           /\ ret.st.current_tense = None
           /\ ret.st.row_in_tense = 0
    /\ (ret.pos > 0 /\ ~IsHeaderRow(ret.row) /\ ret.before.current_tense = None) =>
           ret.st = ret.before
    /\ NewRecords # <<>> =>
           /\ ret.block_rows \in 1..6
           /\ NewRecords[1].person = PersonSlot(ret.block_rows - 1)
           /\ NewRecords[1].tense = tense_name_of(ret.block_tense)

\* a block of 6 counted rows, one of them without a record, was closed, a further
\* row was ignored, and a new header opened the next block
C11_Witness ==
    /\ ret.pos = 9
    /\ IsHeaderRow(ret.row)
    /\ ret.before.current_tense = None
    /\ Len(ret.st.conjugations) = 5
    /\ ret.st.conjugations[5].person = PersonSlot(5)

====
